---- MODULE Spec2Model ----
(***************************************************************************)
(* Orchestrix: job lifecycle state machine, durable claim protocol,        *)
(* job service, scheduler and worker pool.                                 *)
(*                                                                         *)
(* Every durable round trip (one SQL statement, or one commit) is one      *)
(* atomic step.  A service mutation (TransitionState, HandleFailure,       *)
(* CancelJob) is a GetByID followed by a full-row Update, i.e. two steps.  *)
(***************************************************************************)
EXTENDS Integers, Sequences, FiniteSets, TLC

\* ------------------------------------------------------------------ bounds
MaxTime == 2          \* the clock (time.Now) takes the values 1..MaxTime
MaxCancels == 1       \* number of DELETE /api/v1/jobs/{id} requests served
ChanCap == 1          \* capacity of the dispatch channel
BatchSize == 2        \* limit passed to ClaimPendingJobs
MaxRestarts == 1      \* number of crashes followed by a restart
TickLimit == 1        \* batch size of the schedulers that tick once
DurationBits == 5     \* width of time.Duration (int64), scaled down
MantissaBits == 3     \* width of the float64 significand (53), scaled down
MaxJitterBound == 2   \* MaxJitter takes the values 0..MaxJitterBound
MaxAttempt == 3       \* CalculateBackoff is called with attempt in 1..MaxAttempt

\* ------------------------------------------------------- program constants
DefaultMaxAttempts == 3

JobIds == {1, 2}
Workers == {"w1", "w2"}
Schedulers == {"s1", "s2"}
Clients == {"c1"}

\* executors.Register("demo_job", ...) is the only registration of main()
Registered == {"demo_job"}
JobTypes == {"demo_job", "unknown_job"}

NULL == 0             \* a nil *time.Time
NoError == "nil"      \* a nil *string / a nil error

\* -------------------------------------------------------- state machine
PENDING == "PENDING"
SCHEDULED == "SCHEDULED"
RUNNING == "RUNNING"
SUCCEEDED == "SUCCEEDED"
FAILED == "FAILED"
RETRYING == "RETRYING"
CANCELLED == "CANCELLED"

States == {PENDING, SCHEDULED, RUNNING, SUCCEEDED, FAILED, RETRYING, CANCELLED}

IsTerminal(s) == s = SUCCEEDED \/ s = FAILED \/ s = CANCELLED

IsValid(s) == s \in {PENDING, SCHEDULED, RUNNING, SUCCEEDED, FAILED, RETRYING, CANCELLED}

\* A table in which a RETRYING job cannot be cancelled.
CanTransitionNoCancelRetrying(from, to) ==
    IF from = to THEN FALSE
    ELSE IF IsTerminal(from) THEN FALSE
    ELSE CASE from = PENDING   -> to = SCHEDULED \/ to = CANCELLED
           [] from = SCHEDULED -> to = RUNNING \/ to = CANCELLED
           [] from = RUNNING   -> to = SUCCEEDED \/ to = FAILED \/ to = RETRYING \/ to = CANCELLED
           [] from = RETRYING  -> to = SCHEDULED
           [] OTHER            -> FALSE

\* A table that lets a PENDING job go straight to RUNNING.
CanTransitionSkipScheduled(from, to) ==
    IF from = to THEN FALSE
    ELSE IF IsTerminal(from) THEN FALSE
    ELSE CASE from = PENDING   -> to = SCHEDULED \/ to = RUNNING \/ to = CANCELLED
           [] from = SCHEDULED -> to = RUNNING \/ to = CANCELLED
           [] from = RUNNING   -> to = SUCCEEDED \/ to = FAILED \/ to = RETRYING \/ to = CANCELLED
           [] from = RETRYING  -> to = SCHEDULED \/ to = CANCELLED
           [] OTHER            -> FALSE

CanTransition(from, to) ==
    IF from = to THEN FALSE
    ELSE IF IsTerminal(from) THEN FALSE
    ELSE CASE from = PENDING   -> to = SCHEDULED \/ to = CANCELLED
           [] from = SCHEDULED -> to = RUNNING \/ to = CANCELLED
           [] from = RUNNING   -> to = SUCCEEDED \/ to = FAILED \/ to = RETRYING \/ to = CANCELLED
           [] from = RETRYING  -> to = SCHEDULED \/ to = CANCELLED
           [] OTHER            -> FALSE

\* A ValidateTransition that checks its arguments and not the table.
ValidateTransitionArgumentsOnly(from, to) ==
    IF ~IsValid(from) THEN "invalid source state"
    ELSE IF ~IsValid(to) THEN "invalid target state"
    ELSE IF from = to THEN "self-transition not allowed"
    ELSE IF IsTerminal(from) THEN "cannot transition from terminal state"
    ELSE NoError

\* The error ValidateTransition returns, NoError for nil.
ValidateTransition(from, to) ==
    IF ~IsValid(from) THEN "invalid source state"
    ELSE IF ~IsValid(to) THEN "invalid target state"
    ELSE IF from = to THEN "self-transition not allowed"
    ELSE IF IsTerminal(from) THEN "cannot transition from terminal state"
    ELSE IF ~CanTransition(from, to) THEN "invalid transition"
    ELSE NoError

\* allStates of AllowedTransitions, in its order.
AllStates == <<PENDING, SCHEDULED, RUNNING, SUCCEEDED, FAILED, RETRYING, CANCELLED>>

\* AllowedTransitions: nil for an unrecognised or terminal state, otherwise
\* the states of allStates that CanTransition accepts, in that order.
AllowedTransitions(from) ==
    IF ~IsValid(from) \/ IsTerminal(from) THEN <<>>
    ELSE SelectSeq(AllStates, LAMBDA to : CanTransition(from, to))

\* ------------------------------------------------------------- job model
\* The zero value of model.Job.
NilJob ==
    [id |-> 0, type |-> "", payload |-> "", state |-> "", attempt |-> 0, max_attempts |-> 0,
     last_error |-> NoError, created_at |-> NULL, scheduled_at |-> NULL,
     started_at |-> NULL, completed_at |-> NULL]

JobIsTerminal(j) == IsTerminal(j.state)

\* A retry test that is off by one.
CanRetryOffByOne(j) == j.attempt <= j.max_attempts

CanRetry(j) == j.attempt < j.max_attempts

\* A retry that also extends the limit of attempts.
IncrementAttemptAndLimit(j) ==
    [j EXCEPT !.attempt = j.attempt + 1, !.max_attempts = j.max_attempts + 1]

IncrementAttempt(j) == [j EXCEPT !.attempt = j.attempt + 1]

\* RecordError that keeps the first message it was given.
RecordErrorKeepFirst(j, err) ==
    IF err # NoError /\ j.last_error = NoError THEN [j EXCEPT !.last_error = err] ELSE j

RecordError(j, err) == IF err # NoError THEN [j EXCEPT !.last_error = err] ELSE j

\* --------------------------------------------------------- job repository
\* CHECK constraints of the jobs table.
valid_state(j) == j.state \in States
valid_attempts(j) == j.attempt >= 1 /\ j.attempt <= j.max_attempts
valid_max_attempts(j) == j.max_attempts >= 1

CheckConstraints(j) == valid_state(j) /\ valid_attempts(j) /\ valid_max_attempts(j)

\* The payloads: none, an object as a client writes it, the same object as
\* jsonb prints it, and bytes that are no JSON.
CompactPayload == "{\"duration\":1}"
JsonbPayload == "{\"duration\": 1}"
Payloads == {"", CompactPayload, JsonbPayload, "{duration"}

\* json.Valid
JsonValid(p) == p \in {CompactPayload, JsonbPayload}

\* The payload column is JSONB: the value is parsed on the way in and printed
\* in the normal form of jsonb on the way out.
Jsonb(p) == IF p = CompactPayload THEN JsonbPayload ELSE p

\* payload JSONB NOT NULL: the parameter has to be a JSON text.
valid_payload(j) == JsonValid(j.payload)

\* The row a statement stores for the row it was given.
Stored(j) == [j EXCEPT !.payload = Jsonb(j.payload)]

\* Update: full-row UPDATE ... WHERE id = $1.  UpdateOK is "err == nil":
\* the statement passed the constraints and affected one row.
UpdateOK(store, j) == CheckConstraints(j) /\ valid_payload(j) /\ j.id \in DOMAIN store

Update(store, j) ==
    IF UpdateOK(store, j) THEN [store EXCEPT ![j.id] = Stored(j)] ELSE store

\* ------------------------------------------------------------ job service
\* TransitionState that stamps completed_at for SUCCEEDED only.
TransitionJobStampSucceededOnly(j, newState, t) ==
    LET j1 == [j EXCEPT !.state = newState]
    IN  CASE newState = SCHEDULED -> [j1 EXCEPT !.scheduled_at = t]
          [] newState = RUNNING   -> [j1 EXCEPT !.started_at = t]
          [] newState = SUCCEEDED -> [j1 EXCEPT !.completed_at = t]
          [] OTHER -> j1

\* TransitionState that counts a successful execution as one more attempt.
TransitionJobCountingSuccess(j, newState, t) ==
    LET j1 == [j EXCEPT !.state = newState]
    IN  CASE newState = SCHEDULED -> [j1 EXCEPT !.scheduled_at = t]
          [] newState = RUNNING   -> [j1 EXCEPT !.started_at = t]
          [] newState = SUCCEEDED -> [IncrementAttempt(j1) EXCEPT !.completed_at = t]
          [] newState \in {FAILED, CANCELLED} -> [j1 EXCEPT !.completed_at = t]
          [] OTHER -> j1

\* TransitionState after a successful validation: the row it hands to Update.
TransitionJob(j, newState, t) ==
    LET j1 == [j EXCEPT !.state = newState]
    IN  CASE newState = SCHEDULED -> [j1 EXCEPT !.scheduled_at = t]
          [] newState = RUNNING   -> [j1 EXCEPT !.started_at = t]
          [] newState \in {SUCCEEDED, FAILED, CANCELLED} -> [j1 EXCEPT !.completed_at = t]
          [] OTHER -> j1

\* HandleFailure: the row it hands to Update.
FailureJob(j, err, t) ==
    LET j1 == RecordError(j, err)
    IN  IF CanRetry(j1)
        THEN [IncrementAttempt(j1) EXCEPT !.state = RETRYING]
        ELSE [j1 EXCEPT !.state = FAILED, !.completed_at = t]

\* CancelJob: CancelError is the error of its checks, CancelledJob the row it
\* hands to Update.
CancelError(j) ==
    IF JobIsTerminal(j) THEN "cannot cancel job in terminal state"
    ELSE ValidateTransition(j.state, CANCELLED)

CancelledJob(j, t) == [j EXCEPT !.state = CANCELLED, !.completed_at = t]


\* ---------------------------------------------------------------- state
VARIABLES
    jobs,      \* the jobs table: job id -> committed row
    locked,    \* row locks held by open claim transactions: job id -> owner
    now,       \* time.Now()
    chan,      \* the dispatch channel (jobChannel): FIFO of job snapshots
    spc,       \* scheduler -> position in run / pollAndSchedule
    sbatch,    \* scheduler -> rows selected by its claim, then jobs left to send
    sres,      \* scheduler -> how its last ClaimPendingJobs call returned
    wpc,       \* worker -> position in worker / executeJob
    wjob,      \* worker -> the job snapshot it received
    wsnap,     \* worker -> the row its pending service call read with GetJob
    wctx,      \* worker -> state of the execution context ("live" / "expired")
    wout,      \* worker -> what the executor call did
    wres,      \* worker -> how executeJob ended
    cpc,       \* API client -> position in CancelJob
    csnap,     \* API client -> the row CancelJob read with GetJob
    ncancel,   \* number of cancel requests served so far
    metrics,   \* the JobsSucceeded, JobsFailed and JobsCancelled counters
    execs,     \* history: job id -> number of Execute calls made for it
    nclaim,    \* history: job id -> claims that returned it since it last became runnable
    runs,      \* history: job id -> Execute calls made for it since it was last claimed
    cancelled, \* history: ids of the jobs for which a CancelJob call returned nil
    call,      \* the last call of the sequential client, with the table before it
    boots,     \* number of times the process was restarted after a crash
    pstop,     \* WorkerPool.Stop: "no", "cancelled" (p.cancel() done), "joined"
    atstop,    \* history: ids of the jobs in the channel when Stop was called
    sstop      \* Scheduler.Stop: "no", "cancelled" (s.cancel() done), "joined"

storeVars == <<jobs, locked, now>>
schedVars == <<spc, sbatch, sres>>
workerVars == <<wpc, wjob, wsnap, wctx, wout, wres>>
apiVars == <<cpc, csnap, ncancel>>
histVars == <<execs, nclaim, runs, cancelled>>
envVars == <<call, boots, pstop, atstop, sstop>>
vars == <<jobs, locked, now, chan, spc, sbatch, sres, wpc, wjob, wsnap, wctx, wout,
          wres, cpc, csnap, ncancel, metrics, execs, nclaim, runs, cancelled, call, boots, pstop, atstop, sstop>>

NoLock == "unlocked"

\* The snapshot that travels through the channel: executeJob uses its ID and Type.
Snapshot(j) == [id |-> j.id, type |-> j.type]
NoSnapshot == [id |-> 0, type |-> ""]

NoCall == [op |-> "none", id |-> 0, to |-> "", err |-> NoError, before |-> <<>>, ret |-> <<>>, limit |-> 0]

Init ==
    /\ jobs = <<>>
    /\ locked = [i \in JobIds |-> NoLock]
    /\ now = 1
    /\ chan = <<>>
    /\ spc = [s \in Schedulers |-> "idle"]
    /\ sbatch = [s \in Schedulers |-> <<>>]
    /\ sres = [s \in Schedulers |-> "none"]
    /\ wpc = [w \in Workers |-> "idle"]
    /\ wjob = [w \in Workers |-> NoSnapshot]
    /\ wsnap = [w \in Workers |-> NilJob]
    /\ wctx = [w \in Workers |-> "live"]
    /\ wout = [w \in Workers |-> "none"]
    /\ wres = [w \in Workers |-> "none"]
    /\ cpc = [c \in Clients |-> "idle"]
    /\ csnap = [c \in Clients |-> NilJob]
    /\ ncancel = 0
    /\ metrics = [succeeded |-> 0, failed |-> 0, cancelled |-> 0]
    /\ execs = [i \in JobIds |-> 0]
    /\ nclaim = [i \in JobIds |-> 0]
    /\ runs = [i \in JobIds |-> 0]
    /\ cancelled = {}
    /\ call = NoCall
    /\ boots = 0
    /\ pstop = "no"
    /\ atstop = {}
    /\ sstop = "no"

\* time passes
Tick ==
    /\ now < MaxTime
    /\ now' = now + 1
    /\ UNCHANGED <<jobs, locked, chan, schedVars, workerVars, apiVars, metrics, histVars, envVars>>

\* ------------------------------------------------------------- CreateJob
\* idGenerator.Generate(): ULIDs are unique and increase with time.
Generate(store) == Cardinality(DOMAIN store) + 1

NewJob(id, jobType, payload, t) ==
    [id |-> id, type |-> jobType, payload |-> payload, state |-> PENDING, attempt |-> 1,
     max_attempts |-> DefaultMaxAttempts, last_error |-> NoError,
     created_at |-> t, scheduled_at |-> NULL, started_at |-> NULL,
     completed_at |-> NULL]

\* Job.Validate of the job CreateJob has built.
Validate(j) ==
    IF j.id = 0 THEN "job ID is required"
    ELSE IF j.type = "" THEN "job type is required"
    ELSE IF j.payload # "" /\ ~JsonValid(j.payload) THEN "payload must be valid JSON"
    ELSE IF ~IsValid(j.state) THEN "invalid job state"
    ELSE IF j.max_attempts < 1 THEN "max attempts must be at least 1"
    ELSE IF j.attempt > j.max_attempts THEN "attempt exceeds max attempts"
    ELSE IF j.attempt < 0 THEN "attempt cannot be negative"
    ELSE NoError

\* An INSERT that replaces the row of a duplicate key instead of failing.
CreateOKUpsert(store, j) == CheckConstraints(j) /\ valid_payload(j)

\* repo.Create: INSERT, fails on a duplicate primary key and on a parameter
\* the columns do not take.
CreateOK(store, j) ==
    CheckConstraints(j) /\ valid_payload(j) /\ j.id \notin DOMAIN store

Create(store, j) ==
    IF CreateOK(store, j)
    THEN [i \in DOMAIN store \cup {j.id} |-> IF i = j.id THEN Stored(j) ELSE store[i]]
    ELSE store

\* The error CreateJob returns for the id the generator produced.
CreateJobError(store, id, jobType, payload, t) ==
    IF jobType = "" THEN "job type is required"
    ELSE IF payload # "" /\ ~JsonValid(payload) THEN "payload must be valid JSON"
    ELSE IF Validate(NewJob(id, jobType, payload, t)) # NoError THEN "job validation failed"
    ELSE IF ~CreateOK(store, NewJob(id, jobType, payload, t)) THEN "failed to create job"
    ELSE NoError

\* A successful CreateJob.
CreateJob(jobType, payload) ==
    /\ Generate(jobs) \in JobIds
    /\ CreateJobError(jobs, Generate(jobs), jobType, payload, now) = NoError
    /\ jobs' = Create(jobs, NewJob(Generate(jobs), jobType, payload, now))
    /\ UNCHANGED <<locked, now, chan, schedVars, workerVars, apiVars, metrics, histVars, envVars>>

\* ------------------------------------------------------ ClaimPendingJobs
Min(a, b) == IF a < b THEN a ELSE b

Range(q) == {q[k] : k \in DOMAIN q}

\* WHERE state IN (PENDING, RETRYING) ... FOR UPDATE SKIP LOCKED
\* The SELECT without SKIP LOCKED semantics: locked rows are returned too.
CandidatesIgnoringLocks(store, lk) ==
    {i \in DOMAIN store : store[i].state \in {PENDING, RETRYING}}

\* The SELECT with SCHEDULED added to the WHERE clause.
CandidatesWithScheduled(store, lk) ==
    {i \in DOMAIN store : store[i].state \in {PENDING, RETRYING, SCHEDULED} /\ lk[i] = NoLock}

\* The SELECT without RETRYING in its WHERE clause: retried jobs wait.
CandidatesPendingOnly(store, lk) ==
    {i \in DOMAIN store : store[i].state = PENDING /\ lk[i] = NoLock}

Candidates(store, lk) ==
    {i \in DOMAIN store : store[i].state \in {PENDING, RETRYING} /\ lk[i] = NoLock}

\* FOR UPDATE without SKIP LOCKED: the SELECT has a result only once every
\* row it picks is unlocked; until then it waits.
SelectForUpdateWaiting(store, lk, limit) ==
    LET cands == CandidatesIgnoringLocks(store, lk)
        n == Min(limit, Cardinality(cands))
    IN  {q \in [1..n -> cands] :
            /\ \A a, b \in 1..n : a < b =>
                   /\ q[a] # q[b]
                   /\ store[q[a]].created_at <= store[q[b]].created_at
            /\ \A c \in cands \ Range(q) : \A a \in 1..n :
                   store[q[a]].created_at <= store[c].created_at
            /\ \A a \in 1..n : lk[q[a]] = NoLock}

\* ORDER BY created_at ASC LIMIT limit: the possible result lists (rows with
\* equal created_at come in any order).
SelectForUpdate(store, lk, limit) ==
    LET cands == Candidates(store, lk)
        n == Min(limit, Cardinality(cands))
    IN  {q \in [1..n -> cands] :
            /\ \A a, b \in 1..n : a < b =>
                   /\ q[a] # q[b]
                   /\ store[q[a]].created_at <= store[q[b]].created_at
            /\ \A c \in cands \ Range(q) : \A a \in 1..n :
                   store[q[a]].created_at <= store[c].created_at}

\* ticker.C fires: pollAndSchedule begins the claim transaction and runs the
\* SELECT; the selected rows are locked.  An empty result returns at once.
ClaimSelectLimit(s, limit) ==
    /\ spc[s] = "idle"
    /\ sstop = "no"
    /\ spc' = [spc EXCEPT ![s] = "claiming"]
    /\ \E q \in SelectForUpdate(jobs, locked, limit) :
          /\ Len(q) > 0
          /\ locked' = [i \in JobIds |-> IF i \in Range(q) THEN s ELSE locked[i]]
          /\ sbatch' = [sbatch EXCEPT ![s] = q]
    /\ UNCHANGED <<jobs, now, chan, sres, workerVars, apiVars, metrics, histVars, envVars>>

\* the scheduler of main: s.batchSize
ClaimSelect(s) == ClaimSelectLimit(s, BatchSize)

\* The SELECT finds no row that is runnable and not locked: ClaimPendingJobs
\* returns an empty slice and pollAndSchedule returns.
ClaimEmpty(s) ==
    /\ spc[s] = "idle"
    /\ sstop = "no"
    /\ SelectForUpdate(jobs, locked, BatchSize) = {<<>>}
    /\ sres' = [sres EXCEPT ![s] = "empty"]
    /\ UNCHANGED <<storeVars, chan, spc, sbatch, workerVars, apiVars, metrics, histVars, envVars>>

\* The UPDATE without its WHERE id = ANY(...): every runnable row is changed.
ClaimUpdateAllRunnable(store, ids, t) ==
    [i \in DOMAIN store |->
        IF ids # {} /\ store[i].state \in {PENDING, RETRYING}
        THEN [store[i] EXCEPT !.state = SCHEDULED, !.scheduled_at = t]
        ELSE store[i]]

\* UPDATE jobs SET state = SCHEDULED, scheduled_at = now WHERE id = ANY(ids)
ClaimUpdate(store, ids, t) ==
    [i \in DOMAIN store |->
        IF i \in ids THEN [store[i] EXCEPT !.state = SCHEDULED, !.scheduled_at = t]
        ELSE store[i]]

\* The UPDATE and the commit succeed: the rows become visible, the locks are
\* released and the snapshots are returned to pollAndSchedule.
ClaimCommit(s) ==
    /\ spc[s] = "claiming"
    /\ sstop = "no"
    /\ jobs' = ClaimUpdate(jobs, Range(sbatch[s]), now)
    /\ locked' = [i \in JobIds |-> IF locked[i] = s THEN NoLock ELSE locked[i]]
    /\ sbatch' = [sbatch EXCEPT ![s] = [k \in DOMAIN sbatch[s] |-> Snapshot(jobs[sbatch[s][k]])]]
    /\ spc' = [spc EXCEPT ![s] = "sending"]
    /\ sres' = [sres EXCEPT ![s] = "ok"]
    /\ nclaim' = [i \in JobIds |-> IF i \in Range(sbatch[s]) THEN nclaim[i] + 1 ELSE nclaim[i]]
    /\ runs' = [i \in JobIds |-> IF i \in Range(sbatch[s]) THEN 0 ELSE runs[i]]
    /\ UNCHANGED <<now, chan, workerVars, apiVars, metrics, execs, cancelled, envVars>>

\* A failing claim whose UPDATE ran outside the transaction: the rollback
\* does not undo it.
ClaimFailAfterUpdate(s) ==
    /\ spc[s] = "claiming"
    /\ jobs' = ClaimUpdate(jobs, Range(sbatch[s]), now)
    /\ locked' = [i \in JobIds |-> IF locked[i] = s THEN NoLock ELSE locked[i]]
    /\ sbatch' = [sbatch EXCEPT ![s] = <<>>]
    /\ spc' = [spc EXCEPT ![s] = "idle"]
    /\ sres' = [sres EXCEPT ![s] = "error"]
    /\ UNCHANGED <<now, chan, workerVars, apiVars, metrics, histVars, envVars>>

\* The UPDATE or the commit fails: deferred Rollback, error returned, the
\* tick ends.
ClaimFail(s) ==
    /\ spc[s] = "claiming"
    /\ locked' = [i \in JobIds |-> IF locked[i] = s THEN NoLock ELSE locked[i]]
    /\ sbatch' = [sbatch EXCEPT ![s] = <<>>]
    /\ spc' = [spc EXCEPT ![s] = "idle"]
    /\ sres' = [sres EXCEPT ![s] = "error"]
    /\ UNCHANGED <<jobs, now, chan, workerVars, apiVars, metrics, histVars, envVars>>

\* ---------------------------------------------------------- sendToWorkers
AfterSend(s) ==
    /\ spc' = [spc EXCEPT ![s] = IF Len(sbatch[s]) = 1 THEN "idle" ELSE "sending"]
    /\ sbatch' = [sbatch EXCEPT ![s] = Tail(sbatch[s])]
    /\ UNCHANGED sres

\* case s.jobChannel <- job
SendToWorkers(s) ==
    /\ spc[s] = "sending"
    /\ Len(chan) < ChanCap
    /\ chan' = Append(chan, Head(sbatch[s]))
    /\ AfterSend(s)
    /\ UNCHANGED <<storeVars, workerVars, apiVars, metrics, histVars, envVars>>

\* case <-time.After(5 * time.Second): the channel stayed full, the job is
\* abandoned and the loop continues with the next job.
SendTimeout(s) ==
    /\ spc[s] = "sending"
    /\ Len(chan) = ChanCap
    /\ AfterSend(s)
    /\ UNCHANGED <<storeVars, chan, workerVars, apiVars, metrics, histVars, envVars>>


\* ------------------------------------------------------------ worker pool
\* repo.GetByID: the committed row, NilJob (nil) when there is none.
GetByID(store, id) == IF id \in DOMAIN store THEN store[id] ELSE NilJob

\* A durable call made with a context that is done returns the context's error.
CtxDone(ctx) == ctx # "live"

\* p.ctx, the context of the pool that every job context is derived from.
PoolCtx == IF pstop = "no" THEN "live" ELSE "cancelled"

Outcomes == {"ok", "error", "timeout", "panic"}

\* executeJob returns
Finish(w, res) ==
    /\ wpc' = [wpc EXCEPT ![w] = "done"]
    /\ wres' = [wres EXCEPT ![w] = res]
    /\ wsnap' = [wsnap EXCEPT ![w] = NilJob]

\* A TransitionState that does not validate the transition.
BeginTransitionUnchecked(w, id, ctx, to, writePc) ==
    LET cur == GetByID(jobs, id)
    IN  IF CtxDone(ctx) \/ cur = NilJob THEN Finish(w, "error")
        ELSE /\ wpc' = [wpc EXCEPT ![w] = writePc]
             /\ wsnap' = [wsnap EXCEPT ![w] = cur]
             /\ UNCHANGED wres

\* TransitionState up to its Update: GetJob, then ValidateTransition.  On an
\* error the caller logs and returns, otherwise the row read is kept for the
\* Update that follows.
BeginTransition(w, id, ctx, to, writePc) ==
    LET cur == GetByID(jobs, id)
    IN  IF CtxDone(ctx) \/ cur = NilJob THEN Finish(w, "error")
        ELSE IF ValidateTransition(cur.state, to) # NoError
        THEN Finish(w, IF to = RUNNING THEN "dropped" ELSE "error")
        ELSE /\ wpc' = [wpc EXCEPT ![w] = writePc]
             /\ wsnap' = [wsnap EXCEPT ![w] = cur]
             /\ UNCHANGED wres

\* case job := <-p.jobChannel, then executeJob up to the GetJob of
\* TransitionState(RUNNING).
WorkerReceive(w) ==
    /\ wpc[w] = "idle"
    /\ chan # <<>>
    /\ chan' = Tail(chan)
    /\ wjob' = [wjob EXCEPT ![w] = Head(chan)]
    /\ wctx' = [wctx EXCEPT ![w] = PoolCtx]
    /\ BeginTransition(w, Head(chan).id, PoolCtx, RUNNING, "start_write")
    /\ UNCHANGED <<storeVars, schedVars, wout, apiVars, metrics, histVars, envVars>>

\* An executeJob that does not return when TransitionState(RUNNING) fails:
\* the executor is called all the same.
WorkerStartIgnoringError(w) ==
    /\ wpc[w] = "start_write"
    /\ locked[wjob[w].id] = NoLock
    /\ LET row == TransitionJob(wsnap[w], RUNNING, now)
           ok == ~CtxDone(wctx[w]) /\ UpdateOK(jobs, row)
       IN  /\ jobs' = IF ok THEN Update(jobs, row) ELSE jobs
           /\ IF wjob[w].type \notin Registered
              THEN /\ wpc' = [wpc EXCEPT ![w] = "perm_read"]
                   /\ wout' = [wout EXCEPT ![w] = "no executor"]
                   /\ UNCHANGED <<wsnap, wres, execs, runs>>
              ELSE /\ wpc' = [wpc EXCEPT ![w] = "executing"]
                   /\ execs' = [execs EXCEPT ![wjob[w].id] = @ + 1]
                   /\ runs' = [runs EXCEPT ![wjob[w].id] = @ + 1]
                   /\ UNCHANGED <<wsnap, wres, wout>>
    /\ UNCHANGED <<locked, now, chan, schedVars, wjob, wctx, apiVars, metrics, nclaim, cancelled, envVars>>

\* The Update of TransitionState(RUNNING), then executors.Get(job.Type) and,
\* when there is an executor, the call of Execute.
WorkerStart(w) ==
    /\ wpc[w] = "start_write"
    /\ locked[wjob[w].id] = NoLock
    /\ LET row == TransitionJob(wsnap[w], RUNNING, now)
           ok == ~CtxDone(wctx[w]) /\ UpdateOK(jobs, row)
       IN  /\ jobs' = IF ok THEN Update(jobs, row) ELSE jobs
           /\ IF ~ok
              THEN Finish(w, "update failed") /\ UNCHANGED <<wout, execs, runs>>
              ELSE IF wjob[w].type \notin Registered
              THEN /\ wpc' = [wpc EXCEPT ![w] = "perm_read"]
                   /\ wout' = [wout EXCEPT ![w] = "no executor"]
                   /\ UNCHANGED <<wsnap, wres, execs, runs>>
              ELSE /\ wpc' = [wpc EXCEPT ![w] = "executing"]
                   /\ execs' = [execs EXCEPT ![wjob[w].id] = @ + 1]
                   /\ runs' = [runs EXCEPT ![wjob[w].id] = @ + 1]
                   /\ UNCHANGED <<wsnap, wres, wout>>
    /\ UNCHANGED <<locked, now, chan, schedVars, wjob, wctx, apiVars, metrics, nclaim, cancelled, envVars>>

\* A missing executor treated as a retryable failure: handleFailure(ctx, job,
\* err, true).
WorkerNoExecutorRetryable(w) ==
    /\ wpc[w] = "perm_read"
    /\ IF CtxDone(wctx[w]) \/ GetByID(jobs, wjob[w].id) = NilJob
       THEN Finish(w, "error")
       ELSE /\ wpc' = [wpc EXCEPT ![w] = "hf_write"]
            /\ wsnap' = [wsnap EXCEPT ![w] = GetByID(jobs, wjob[w].id)]
            /\ UNCHANGED wres
    /\ UNCHANGED <<storeVars, chan, schedVars, wjob, wctx, wout, apiVars, metrics, histVars, envVars>>

\* handleFailure(ctx, job, err, false) after executors.Get failed: the GetJob
\* and validation of TransitionState(FAILED).
WorkerNoExecutor(w) ==
    /\ wpc[w] = "perm_read"
    /\ BeginTransition(w, wjob[w].id, wctx[w], FAILED, "perm_write")
    /\ UNCHANGED <<storeVars, chan, schedVars, wjob, wctx, wout, apiVars, metrics, histVars, envVars>>

\* An executor whose panic is reported like a returned error:
\* handleFailure(ctx, job, err, true).
WorkerExecutePanicRetryable(w, out) ==
    /\ wpc[w] = "executing"
    /\ wout' = [wout EXCEPT ![w] = out]
    /\ LET ctx == CASE out = "timeout" -> "expired"
                     [] out = "panic" -> PoolCtx
                     [] OTHER -> wctx[w]
           id == wjob[w].id
       IN  /\ wctx' = [wctx EXCEPT ![w] = ctx]
           /\ CASE out = "ok" -> BeginTransition(w, id, ctx, SUCCEEDED, "succ_write")
                [] OTHER ->
                     IF CtxDone(ctx) \/ GetByID(jobs, id) = NilJob
                     THEN Finish(w, "error")
                     ELSE /\ wpc' = [wpc EXCEPT ![w] = "hf_write"]
                          /\ wsnap' = [wsnap EXCEPT ![w] = GetByID(jobs, id)]
                          /\ UNCHANGED wres
    /\ UNCHANGED <<storeVars, chan, schedVars, wjob, apiVars, metrics, histVars, envVars>>

\* Execute returns (or panics, or runs into job_timeout and returns
\* ctx.Err()), and the worker makes the first read of its report:
\*   nil    -> handleSuccess: GetJob of TransitionState(SUCCEEDED)
\*   error  -> handleFailure(ctx, job, err, true): GetJob of HandleFailure
\*   panic  -> recover, handleFailure(newCtx, job, err, false): GetJob of
\*             TransitionState(FAILED)
WorkerExecute(w, out) ==
    /\ wpc[w] = "executing"
    /\ wout' = [wout EXCEPT ![w] = out]
    /\ LET ctx == CASE out = "timeout" -> "expired"
                     [] out = "panic" -> PoolCtx
                     [] OTHER -> wctx[w]
           id == wjob[w].id
       IN  /\ wctx' = [wctx EXCEPT ![w] = ctx]
           /\ CASE out = "ok" -> BeginTransition(w, id, ctx, SUCCEEDED, "succ_write")
                [] out = "panic" -> BeginTransition(w, id, ctx, FAILED, "perm_write")
                [] OTHER ->
                     IF CtxDone(ctx) \/ GetByID(jobs, id) = NilJob
                     THEN Finish(w, "error")
                     ELSE /\ wpc' = [wpc EXCEPT ![w] = "hf_write"]
                          /\ wsnap' = [wsnap EXCEPT ![w] = GetByID(jobs, id)]
                          /\ UNCHANGED wres
    /\ UNCHANGED <<storeVars, chan, schedVars, wjob, apiVars, metrics, histVars, envVars>>

\* The error the failing executor returns.
ExecError == "simulated failure"

\* The Update of TransitionState(SUCCEEDED), then JobsSucceeded.Inc().
WorkerSucceed(w) ==
    /\ wpc[w] = "succ_write"
    /\ locked[wjob[w].id] = NoLock
    /\ LET row == TransitionJob(wsnap[w], SUCCEEDED, now)
           ok == ~CtxDone(wctx[w]) /\ UpdateOK(jobs, row)
       IN  /\ jobs' = IF ok THEN Update(jobs, row) ELSE jobs
           /\ IF ok
              THEN /\ metrics' = [metrics EXCEPT !.succeeded = @ + 1]
                   /\ Finish(w, "succeeded")
              ELSE UNCHANGED metrics /\ Finish(w, "update failed")
    /\ UNCHANGED <<locked, now, chan, schedVars, wjob, wctx, wout, apiVars, histVars, envVars>>

\* The Update of TransitionState(FAILED), then JobsFailed.Inc().
WorkerFailPermanently(w) ==
    /\ wpc[w] = "perm_write"
    /\ locked[wjob[w].id] = NoLock
    /\ LET row == TransitionJob(wsnap[w], FAILED, now)
           ok == ~CtxDone(wctx[w]) /\ UpdateOK(jobs, row)
       IN  /\ jobs' = IF ok THEN Update(jobs, row) ELSE jobs
           /\ IF ok
              THEN /\ metrics' = [metrics EXCEPT !.failed = @ + 1]
                   /\ Finish(w, "failed")
              ELSE UNCHANGED metrics /\ Finish(w, "update failed")
    /\ UNCHANGED <<locked, now, chan, schedVars, wjob, wctx, wout, apiVars, histVars, envVars>>

\* The Update of HandleFailure.
WorkerHandleFailure(w) ==
    /\ wpc[w] = "hf_write"
    /\ locked[wjob[w].id] = NoLock
    /\ LET row == FailureJob(wsnap[w], ExecError, now)
           ok == ~CtxDone(wctx[w]) /\ UpdateOK(jobs, row)
       IN  /\ jobs' = IF ok THEN Update(jobs, row) ELSE jobs
           /\ IF ok
              THEN /\ wpc' = [wpc EXCEPT ![w] = "hf_reread"]
                   /\ nclaim' = [nclaim EXCEPT ![row.id] = IF row.state = RETRYING THEN 0 ELSE @]
                   /\ UNCHANGED <<wsnap, wres>>
              ELSE UNCHANGED nclaim /\ Finish(w, "update failed")
    /\ UNCHANGED <<locked, now, chan, schedVars, wjob, wctx, wout, apiVars, metrics, execs, runs, cancelled, envVars>>

\* handleFailure re-reads the job and counts it when it is FAILED.
WorkerReread(w) ==
    /\ wpc[w] = "hf_reread"
    /\ LET cur == GetByID(jobs, wjob[w].id)
       IN  IF CtxDone(wctx[w]) \/ cur = NilJob THEN UNCHANGED metrics /\ Finish(w, "error")
           ELSE IF cur.state = FAILED
           THEN /\ metrics' = [metrics EXCEPT !.failed = @ + 1]
                /\ Finish(w, "failed")
           ELSE UNCHANGED metrics /\ Finish(w, "retrying")
    /\ UNCHANGED <<storeVars, chan, schedVars, wjob, wctx, wout, apiVars, histVars, envVars>>

\* The row the worker's pending repo.Update would store: the job it read,
\* changed by TransitionState or HandleFailure.
PendingRow(w) ==
    CASE wpc[w] = "start_write" -> TransitionJob(wsnap[w], RUNNING, now)
      [] wpc[w] = "succ_write" -> TransitionJob(wsnap[w], SUCCEEDED, now)
      [] wpc[w] = "perm_write" -> TransitionJob(wsnap[w], FAILED, now)
      [] wpc[w] = "hf_write" -> FailureJob(wsnap[w], ExecError, now)

\* repo.Update is about to return an error to TransitionState or
\* HandleFailure: the context of the call is done, or the row violates a
\* constraint of the table.
UpdateFails(w) ==
    /\ wpc[w] \in {"start_write", "succ_write", "perm_write", "hf_write"}
    /\ (CtxDone(wctx[w]) \/ ~UpdateOK(jobs, PendingRow(w)))

\* executeJob has returned: back to the select of the worker loop.
WorkerLoop(w) ==
    /\ wpc[w] = "done"
    /\ wpc' = [wpc EXCEPT ![w] = "idle"]
    /\ wjob' = [wjob EXCEPT ![w] = NoSnapshot]
    /\ wctx' = [wctx EXCEPT ![w] = "live"]
    /\ wout' = [wout EXCEPT ![w] = "none"]
    /\ wres' = [wres EXCEPT ![w] = "none"]
    /\ UNCHANGED <<storeVars, chan, schedVars, wsnap, apiVars, metrics, histVars, envVars>>

\* ------------------------------------------------------- WorkerPool.Stop
\* Stop calls p.cancel(): p.ctx and every job context derived from it are done.
PoolStop ==
    /\ pstop = "no"
    /\ pstop' = "cancelled"
    /\ atstop' = {chan[k].id : k \in 1..Len(chan)}
    /\ wctx' = [w \in Workers |->
                  IF wpc[w] \notin {"idle", "done"} /\ wctx[w] = "live"
                  THEN "cancelled" ELSE wctx[w]]
    /\ UNCHANGED <<storeVars, chan, schedVars, wpc, wjob, wsnap, wout, wres, apiVars,
                   metrics, histVars, call, boots, sstop>>

\* A worker written as `for job := range p.jobChannel`: it returns when the
\* channel is closed, and nothing closes the channel.
WorkerExitOnClose(w) ==
    /\ wpc[w] = "idle"
    /\ pstop = "cancelled"
    /\ FALSE
    /\ wpc' = [wpc EXCEPT ![w] = "exited"]
    /\ UNCHANGED <<storeVars, chan, schedVars, wjob, wsnap, wctx, wout, wres, apiVars,
                   metrics, histVars, envVars>>

\* case <-p.ctx.Done(): the worker returns.  When the channel holds a job as
\* well the select takes either case.
WorkerExit(w) ==
    /\ wpc[w] = "idle"
    /\ pstop = "cancelled"
    /\ wpc' = [wpc EXCEPT ![w] = "exited"]
    /\ UNCHANGED <<storeVars, chan, schedVars, wjob, wsnap, wctx, wout, wres, apiVars,
                   metrics, histVars, envVars>>

\* p.wg.Wait() returns: every worker has returned.
PoolJoin ==
    /\ pstop = "cancelled"
    /\ \A w \in Workers : wpc[w] = "exited"
    /\ pstop' = "joined"
    /\ UNCHANGED <<storeVars, chan, schedVars, workerVars, apiVars, metrics, histVars,
                   call, boots, atstop, sstop>>

\* -------------------------------------------------------- Scheduler.Stop
\* Stop calls s.cancel(): s.ctx is done.
SchedStop ==
    /\ sstop = "no"
    /\ sstop' = "cancelled"
    /\ UNCHANGED <<storeVars, chan, schedVars, workerVars, apiVars, metrics, histVars,
                   call, boots, pstop, atstop>>

\* A tick that run's select takes although s.ctx is done: ClaimPendingJobs
\* fails on the cancelled context before it reads a row and pollAndSchedule
\* returns.
ClaimCancelled(s) ==
    /\ spc[s] = "idle"
    /\ sstop = "cancelled"
    /\ sres' = [sres EXCEPT ![s] = "error"]
    /\ UNCHANGED <<storeVars, chan, spc, sbatch, workerVars, apiVars, metrics, histVars, envVars>>

\* case <-s.ctx.Done() of sendToWorkers: the job is not sent.  When the
\* channel has room as well the select takes either case.
SendCancelled(s) ==
    /\ spc[s] = "sending"
    /\ sstop = "cancelled"
    /\ AfterSend(s)
    /\ UNCHANGED <<storeVars, chan, workerVars, apiVars, metrics, histVars, envVars>>

\* case <-s.ctx.Done() of run: the loop returns.
SchedExit(s) ==
    /\ spc[s] = "idle"
    /\ sstop = "cancelled"
    /\ spc' = [spc EXCEPT ![s] = "exited"]
    /\ UNCHANGED <<storeVars, chan, sbatch, sres, workerVars, apiVars, metrics, histVars, envVars>>

\* s.wg.Wait() returns: the loop has returned.
SchedJoin ==
    /\ sstop = "cancelled"
    /\ \A s \in Schedulers : spc[s] = "exited"
    /\ sstop' = "joined"
    /\ UNCHANGED <<storeVars, chan, schedVars, workerVars, apiVars, metrics, histVars,
                   call, boots, pstop, atstop>>

\* ------------------------------------------------------------- CancelJob
\* DELETE /api/v1/jobs/{id}: CancelJob up to its Update.  An error answers
\* the request with 400.
CancelJobBegin(c, id) ==
    /\ cpc[c] = "idle"
    /\ ncancel < MaxCancels
    /\ ncancel' = ncancel + 1
    /\ LET cur == GetByID(jobs, id)
       IN  IF cur = NilJob \/ CancelError(cur) # NoError
           THEN UNCHANGED <<cpc, csnap>>
           ELSE /\ cpc' = [cpc EXCEPT ![c] = "cancel_write"]
                /\ csnap' = [csnap EXCEPT ![c] = cur]
    /\ UNCHANGED <<storeVars, chan, schedVars, workerVars, metrics, histVars, envVars>>

\* The Update of CancelJob, then JobsCancelled.Inc() in the handler.
CancelJobEnd(c) ==
    /\ cpc[c] = "cancel_write"
    /\ locked[csnap[c].id] = NoLock
    /\ LET row == CancelledJob(csnap[c], now)
       IN  /\ jobs' = Update(jobs, row)
           /\ metrics' = IF UpdateOK(jobs, row)
                         THEN [metrics EXCEPT !.cancelled = @ + 1] ELSE metrics
           /\ cancelled' = IF UpdateOK(jobs, row) THEN cancelled \cup {row.id} ELSE cancelled
    /\ cpc' = [cpc EXCEPT ![c] = "idle"]
    /\ csnap' = [csnap EXCEPT ![c] = NilJob]
    /\ UNCHANGED <<locked, now, chan, schedVars, workerVars, ncancel, execs, nclaim, runs, envVars>>

\* ------------------------------------------------------------------ system
\* One job, two schedulers, two workers and an API client, all concurrent.
\* (With a single job the channel is never full when the scheduler sends; a
\* poll that finds nothing changes nothing here but sres and is left out.)
Next ==
    \/ \E t \in JobTypes : Generate(jobs) = 1 /\ CreateJob(t, CompactPayload)
    \/ \E s \in Schedulers : ClaimSelect(s)
    \/ \E s \in Schedulers : ClaimCommit(s)
    \/ \E s \in Schedulers : ClaimFail(s)
    \/ \E s \in Schedulers : SendToWorkers(s)
    \/ \E w \in Workers : WorkerReceive(w)
    \/ \E w \in Workers : WorkerStart(w)
    \/ \E w \in Workers : WorkerNoExecutor(w)
    \/ \E w \in Workers, out \in Outcomes : WorkerExecute(w, out)
    \/ \E w \in Workers : WorkerSucceed(w)
    \/ \E w \in Workers : WorkerFailPermanently(w)
    \/ \E w \in Workers : WorkerHandleFailure(w)
    \/ \E w \in Workers : WorkerReread(w)
    \/ \E w \in Workers : WorkerLoop(w)
    \/ \E c \in Clients, id \in JobIds : CancelJobBegin(c, id)
    \/ \E c \in Clients : CancelJobEnd(c)

Spec == Init /\ [][Next]_vars

\* Two jobs, two schedulers, one worker and an API client: the claim protocol
\* and the dispatch channel under load.
NextBatch ==
    \/ \E t \in JobTypes : CreateJob(t, CompactPayload)
    \/ \E s \in Schedulers : ClaimSelect(s)
    \/ \E s \in Schedulers : ClaimCommit(s)
    \/ \E s \in Schedulers : ClaimFail(s)
    \/ \E s \in Schedulers : SendToWorkers(s)
    \/ \E s \in Schedulers : SendTimeout(s)
    \/ WorkerReceive("w1")
    \/ WorkerStart("w1")
    \/ WorkerNoExecutor("w1")
    \/ \E out \in Outcomes : WorkerExecute("w1", out)
    \/ WorkerSucceed("w1")
    \/ WorkerFailPermanently("w1")
    \/ WorkerHandleFailure("w1")
    \/ WorkerReread("w1")
    \/ WorkerLoop("w1")
    \/ \E c \in Clients, id \in JobIds : CancelJobBegin(c, id)
    \/ \E c \in Clients : CancelJobEnd(c)

SpecBatch == Init /\ [][NextBatch]_vars

\* ------------------------------------------------------ crash and restart
\* The process dies (channel, goroutines, open transactions and counters are
\* lost, the table stays) and main() runs again: it connects, builds the
\* service, the scheduler and the worker pool and starts them.  It makes no
\* call that writes the table.
CrashRestart ==
    /\ boots < MaxRestarts
    /\ boots' = boots + 1
    /\ pstop' = "no"
    /\ atstop' = {}
    /\ sstop' = "no"
    /\ locked' = [i \in JobIds |-> NoLock]
    /\ chan' = <<>>
    /\ spc' = [s \in Schedulers |-> "idle"]
    /\ sbatch' = [s \in Schedulers |-> <<>>]
    /\ sres' = [s \in Schedulers |-> "none"]
    /\ wpc' = [w \in Workers |-> "idle"]
    /\ wjob' = [w \in Workers |-> NoSnapshot]
    /\ wsnap' = [w \in Workers |-> NilJob]
    /\ wctx' = [w \in Workers |-> "live"]
    /\ wout' = [w \in Workers |-> "none"]
    /\ wres' = [w \in Workers |-> "none"]
    /\ cpc' = [c \in Clients |-> "idle"]
    /\ csnap' = [c \in Clients |-> NilJob]
    /\ metrics' = [succeeded |-> 0, failed |-> 0, cancelled |-> 0]
    /\ UNCHANGED <<jobs, now, ncancel, histVars, call>>

NextCrash == Next \/ CrashRestart

SpecCrash == Init /\ [][NextCrash]_vars

\* ----------------------------------------------------------------- shutdown
\* The system of Spec with the worker pool stopped at any moment.
NextStop ==
    \/ Next
    \/ PoolStop
    \/ \E w \in Workers : WorkerExit(w)
    \/ PoolJoin

SpecStop == Init /\ [][NextStop]_vars

\* ------------------------------------------ specification: main's shutdown
\* main defers sched.Stop() first and workers.Stop() second; deferred calls
\* run last in first out, so sched.Stop() is called when workers.Stop() has
\* returned.
MainStopScheduler ==
    /\ pstop = "joined"
    /\ SchedStop

SchedulerShutdownStep(s) ==
    \/ ClaimSelect(s)
    \/ ClaimCommit(s)
    \/ ClaimFail(s)
    \/ ClaimCancelled(s)
    \/ SendToWorkers(s)
    \/ SendTimeout(s)
    \/ SendCancelled(s)

WorkerShutdownStep(w) ==
    \/ WorkerReceive(w)
    \/ WorkerStart(w)
    \/ \E out \in {"ok", "error"} : WorkerExecute(w, out)
    \/ WorkerSucceed(w)
    \/ WorkerHandleFailure(w)
    \/ WorkerReread(w)
    \/ WorkerLoop(w)

NextShutdown ==
    \/ CreateJob("demo_job", CompactPayload)
    \/ \E s \in Schedulers : SchedulerShutdownStep(s)
    \/ \E w \in Workers : WorkerShutdownStep(w)
    \/ PoolStop
    \/ \E w \in Workers : WorkerExit(w)
    \/ PoolJoin
    \/ MainStopScheduler
    \/ \E s \in Schedulers : SchedExit(s)
    \/ SchedJoin

SpecShutdown == Init /\ [][NextShutdown]_vars

\* The shutdown of main with its one scheduler ticking (a second Scheduler
\* object is stopped without having claimed) and goroutines that are
\* scheduled fairly: a goroutine that can take a step takes one, executors
\* return, and Wait returns once the goroutines it waits for have returned.
NextHalt ==
    \/ CreateJob("demo_job", CompactPayload)
    \/ SchedulerShutdownStep("s1")
    \/ \E w \in Workers : WorkerShutdownStep(w)
    \/ PoolStop
    \/ \E w \in Workers : WorkerExit(w)
    \/ PoolJoin
    \/ MainStopScheduler
    \/ \E s \in Schedulers : SchedExit(s)
    \/ SchedJoin

SpecHalt ==
    /\ Init
    /\ [][NextHalt]_vars
    /\ \A w \in Workers : WF_vars(WorkerShutdownStep(w)) /\ WF_vars(WorkerExit(w))
    /\ WF_vars(PoolJoin)
    /\ WF_vars(SchedulerShutdownStep("s1"))
    /\ \A s \in Schedulers : WF_vars(SchedExit(s))
    /\ WF_vars(SchedJoin)

\* ------------------------------------------------------------------ backoff
RECURSIVE Pow2(_)
\* ------------------------------------------------------ CreateJob and GetJob
\* time.Now() has nanoseconds, a TIMESTAMP column has microseconds.  A time is
\* <<microseconds, rest>>; rest is 0 when the time is a whole microsecond.
SubMicros == {0, 1}
Timestamp(t) == t[1]
TimeOf(ts) == <<ts, 0>>

\* The job GetByID scans from a row.
Loaded(row) == [row EXCEPT !.created_at = TimeOf(row.created_at)]

\* CreateJob with the id the generator returns and the time time.Now() returns.
SeqCreateJob(id, jobType, payload, rest) ==
    /\ LET t == <<now, rest>>
           err == CreateJobError(jobs, id, jobType, payload, Timestamp(t))
           job == [NewJob(id, jobType, payload, NULL) EXCEPT !.created_at = t]
       IN  /\ jobs' = IF err = NoError
                      THEN Create(jobs, NewJob(id, jobType, payload, Timestamp(t)))
                      ELSE jobs
           /\ call' = [op |-> "CreateJob", id |-> id, type |-> jobType, payload |-> payload,
                       err |-> err, before |-> jobs,
                       ret |-> IF err = NoError THEN job ELSE Loaded(NilJob)]
    /\ UNCHANGED <<locked, now, chan, schedVars, workerVars, apiVars, metrics, histVars, boots, pstop, atstop, sstop>>

SeqGetJob(id) ==
    /\ LET cur == GetByID(jobs, id)
       IN  call' = [op |-> "GetJob", id |-> id,
                    err |-> IF cur = NilJob THEN "job not found" ELSE NoError,
                    before |-> jobs, ret |-> Loaded(cur)]
    /\ UNCHANGED <<storeVars, chan, schedVars, workerVars, apiVars, metrics, histVars, boots, pstop, atstop, sstop>>

NextCreate ==
    \/ Tick
    \/ \E id \in JobIds, t \in {"", "demo_job"}, p \in Payloads, rest \in SubMicros :
          SeqCreateJob(id, t, p, rest)
    \/ \E id \in JobIds : SeqGetJob(id)

SpecCreate == Init /\ [][NextCreate]_vars

Pow2(n) == IF n = 0 THEN 1 ELSE 2 * Pow2(n - 1)

\* math.MaxInt64 and math.MinInt64 at the width of the model.
MaxInt64 == Pow2(DurationBits - 1) - 1
MinInt64 == 0 - Pow2(DurationBits - 1)

\* Number of bits of a non-negative integer.
RECURSIVE BitLen(_)
BitLen(x) == IF x = 0 THEN 0 ELSE 1 + BitLen(x \div 2)

\* float64(x) of a non-negative integer: exact while x fits the significand,
\* above that rounded to the nearest representable value, ties to even.
Float64(x) ==
    IF BitLen(x) <= MantissaBits THEN x
    ELSE LET e == Pow2(BitLen(x) - MantissaBits)
             q == x \div e
             r == x % e
             up == 2 * r > e \/ (2 * r = e /\ q % 2 = 1)
         IN  (IF up THEN q + 1 ELSE q) * e

\* time.Duration(f) of a non-negative integral float: the value when it is in
\* range; out of range the result depends on the implementation (the minimum
\* on amd64, the maximum on arm64).
DurationOf(f) == IF f <= MaxInt64 THEN {f} ELSE {MinInt64, MaxInt64}

\* Addition of two time.Duration values, wrapping around.
AddDuration(a, b) ==
    ((a + b + Pow2(DurationBits - 1)) % Pow2(DurationBits)) - Pow2(DurationBits - 1)

\* The configurations: non-negative durations.
RetryConfigs ==
    [BaseDelay : 0..MaxInt64, MaxDelay : 0..MaxInt64, MaxJitter : 0..MaxJitterBound]

\* CalculateBackoff(attempt) of configuration c: the set of values it can
\* return (rand.Int63n(n) returns any of 0..n-1).
CalculateBackoff(c, attempt) ==
    LET exp == Float64(c.BaseDelay) * Pow2(attempt - 1)
        delay == IF exp > Float64(c.MaxDelay) THEN Float64(c.MaxDelay) ELSE exp
        jitters == IF c.MaxJitter > 0 THEN 0..(c.MaxJitter - 1) ELSE {0}
    IN  {AddDuration(d, j) : d \in DurationOf(delay), j \in jitters}

\* A run makes one call with attempt and one with attempt + 1 on the same
\* configuration.
CallCalculateBackoff(c, attempt) ==
    /\ call.op = "none"
    /\ \E r \in CalculateBackoff(c, attempt), r2 \in CalculateBackoff(c, attempt + 1) :
           call' = [op |-> "CalculateBackoff", cfg |-> c, attempt |-> attempt,
                    ret |-> r, next |-> r2]
    /\ UNCHANGED <<storeVars, chan, schedVars, workerVars, apiVars, metrics, histVars, boots, pstop, atstop, sstop>>

NextBackoff ==
    \E c \in RetryConfigs, attempt \in 1..MaxAttempt : CallCalculateBackoff(c, attempt)

SpecBackoff == Init /\ [][NextBackoff]_vars

\* ----------------------------------------------------------------- liveness
\* One scheduler, one worker and two jobs, with a store that does not fail,
\* executors that return in time, no cancel, no crash and no shutdown.  The
\* scheduler goroutine and the worker goroutine are scheduled fairly.
SchedulerStep(s) ==
    \/ ClaimSelect(s)
    \/ ClaimCommit(s)
    \/ SendToWorkers(s)
    \/ SendTimeout(s)

WorkerStep(w) ==
    \/ WorkerReceive(w)
    \/ WorkerStart(w)
    \/ \E out \in {"ok", "error"} : WorkerExecute(w, out)
    \/ WorkerSucceed(w)
    \/ WorkerHandleFailure(w)
    \/ WorkerReread(w)
    \/ WorkerLoop(w)

NextLive ==
    \/ CreateJob("demo_job", CompactPayload)
    \/ SchedulerStep("s1")
    \/ WorkerStep("w1")

SpecLive ==
    /\ Init
    /\ [][NextLive]_vars
    /\ WF_vars(SchedulerStep("s1"))
    /\ WF_vars(WorkerStep("w1"))

\* The same goroutines, fairly scheduled, in a process that is killed and
\* started again (at most MaxRestarts times; the restart does happen).
NextRecover ==
    \/ NextLive
    \/ CrashRestart

SpecRecover ==
    /\ Init
    /\ [][NextRecover]_vars
    /\ WF_vars(SchedulerStep("s1"))
    /\ WF_vars(WorkerStep("w1"))
    /\ WF_vars(CrashRestart)

\* A job the scheduler gave up on: stored SCHEDULED, not in the channel, in
\* no batch still being published and held by no worker.
Abandoned(i) ==
    /\ i \in DOMAIN jobs
    /\ jobs[i].state = SCHEDULED
    /\ \A k \in 1..Len(chan) : chan[k].id # i
    /\ \A s \in Schedulers :
         spc[s] = "sending" => \A k \in 1..Len(sbatch[s]) : sbatch[s][k].id # i
    /\ \A w \in Workers : wjob[w].id # i

\* ------------------------------------------------------ sequential client
\* One caller that runs each service or repository call to completion before
\* the next one (the unit tests of the service): a call is one step.  call
\* records the call, its error and the table as it was before.
SeqTargets == States \cup {"INVALID"}
ErrMsgs == {"simulated failure", "connection reset"}

SeqTransitionState(id, to) ==
    /\ LET cur == GetByID(jobs, id)
           verr == IF cur = NilJob THEN "job not found"
                   ELSE ValidateTransition(cur.state, to)
           row == TransitionJob(cur, to, now)
           err == IF verr # NoError THEN verr
                  ELSE IF ~UpdateOK(jobs, row) THEN "failed to update job state"
                  ELSE NoError
       IN  /\ jobs' = IF verr = NoError THEN Update(jobs, row) ELSE jobs
           /\ call' = [op |-> "TransitionState", id |-> id, to |-> to, err |-> err,
                       before |-> jobs, ret |-> <<>>, limit |-> 0]
    /\ UNCHANGED <<locked, now, chan, schedVars, workerVars, apiVars, metrics, histVars, boots, pstop, atstop, sstop>>

SeqHandleFailure(id, msg) ==
    /\ LET cur == GetByID(jobs, id)
           row == FailureJob(cur, msg, now)
           err == IF cur = NilJob THEN "job not found"
                  ELSE IF ~UpdateOK(jobs, row) THEN "failed to update job after failure"
                  ELSE NoError
       IN  /\ jobs' = IF cur # NilJob THEN Update(jobs, row) ELSE jobs
           /\ call' = [op |-> "HandleFailure", id |-> id, to |-> msg, err |-> err,
                       before |-> jobs, ret |-> <<>>, limit |-> 0]
    /\ UNCHANGED <<locked, now, chan, schedVars, workerVars, apiVars, metrics, histVars, boots, pstop, atstop, sstop>>

SeqCancelJob(id) ==
    /\ LET cur == GetByID(jobs, id)
           verr == IF cur = NilJob THEN "job not found" ELSE CancelError(cur)
           row == CancelledJob(cur, now)
           err == IF verr # NoError THEN verr
                  ELSE IF ~UpdateOK(jobs, row) THEN "failed to cancel job"
                  ELSE NoError
       IN  /\ jobs' = IF verr = NoError THEN Update(jobs, row) ELSE jobs
           /\ call' = [op |-> "CancelJob", id |-> id, to |-> "", err |-> err,
                       before |-> jobs, ret |-> <<>>, limit |-> 0]
           /\ cancelled' = IF err = NoError THEN cancelled \cup {id} ELSE cancelled
    /\ UNCHANGED <<locked, now, chan, schedVars, workerVars, apiVars, metrics, execs, nclaim, runs, boots, pstop, atstop, sstop>>

\* ClaimPendingJobs with no other transaction open: SELECT, UPDATE, commit.
SeqClaimPendingJobs(limit) ==
    /\ \E q \in SelectForUpdate(jobs, locked, limit) :
          /\ jobs' = ClaimUpdate(jobs, Range(q), now)
          /\ call' = [op |-> "ClaimPendingJobs", id |-> 0, to |-> "", err |-> NoError,
                      before |-> jobs, ret |-> q, limit |-> limit]
    /\ UNCHANGED <<locked, now, chan, schedVars, workerVars, apiVars, metrics, histVars, boots, pstop, atstop, sstop>>

NextSeq ==
    \/ Tick
    \/ (Generate(jobs) = 1 /\ CreateJob("demo_job", CompactPayload))
    \/ \E id \in JobIds, to \in SeqTargets : SeqTransitionState(id, to)
    \/ \E id \in JobIds, msg \in ErrMsgs : SeqHandleFailure(id, msg)
    \/ \E id \in JobIds : SeqCancelJob(id)
    \/ \E limit \in 1..BatchSize : SeqClaimPendingJobs(limit)

SpecSeq == Init /\ [][NextSeq]_vars

\* The same caller on a table of two jobs, claiming with limit 1 or 2 between
\* failures and cancellations (the repository's claim on a table it has to
\* itself).
NextClaim ==
    \/ Tick
    \/ CreateJob("demo_job", CompactPayload)
    \/ \E id \in JobIds : SeqHandleFailure(id, ExecError)
    \/ \E id \in JobIds : SeqCancelJob(id)
    \/ \E limit \in 1..BatchSize : SeqClaimPendingJobs(limit)

SpecClaim == Init /\ [][NextClaim]_vars

\* ------------------------------------------------------- the state machine
\* A caller of the state machine alone (the table-driven tests of state.go):
\* CanTransition and ValidateTransition on every pair of states, an unknown
\* state included.
CallCanTransition(from, to) ==
    /\ call' = [op |-> "CanTransition", from |-> from, to |-> to,
                ret |-> CanTransition(from, to)]
    /\ UNCHANGED <<storeVars, chan, schedVars, workerVars, apiVars, metrics, histVars, boots, pstop, atstop, sstop>>

CallValidateTransition(from, to) ==
    /\ call' = [op |-> "ValidateTransition", from |-> from, to |-> to,
                err |-> ValidateTransition(from, to)]
    /\ UNCHANGED <<storeVars, chan, schedVars, workerVars, apiVars, metrics, histVars, boots, pstop, atstop, sstop>>

CallAllowedTransitions(from) ==
    /\ call' = [op |-> "AllowedTransitions", from |-> from, ret |-> AllowedTransitions(from)]
    /\ UNCHANGED <<storeVars, chan, schedVars, workerVars, apiVars, metrics, histVars, boots, pstop, atstop, sstop>>

NextTable ==
    \/ \E from \in SeqTargets, to \in SeqTargets : CallCanTransition(from, to)
    \/ \E from \in SeqTargets, to \in SeqTargets : CallValidateTransition(from, to)
    \/ \E from \in SeqTargets : CallAllowedTransitions(from)

SpecTable == Init /\ [][NextTable]_vars

\* ------------------------------------------------------------ one tick each
\* Two scheduler instances on one table and no worker: the jobs are created
\* first, then each scheduler runs pollAndSchedule once, with batch size
\* TickLimit.
NoTickYet(s) == spc[s] = "idle" /\ sres[s] = "none"

NextTicks ==
    \/ Tick
    \/ \E t \in JobTypes : (\A s \in Schedulers : NoTickYet(s)) /\ CreateJob(t, CompactPayload)
    \/ \E s \in Schedulers : NoTickYet(s) /\ ClaimSelectLimit(s, TickLimit)
    \/ \E s \in Schedulers : NoTickYet(s) /\ ClaimEmpty(s)
    \/ \E s \in Schedulers : ClaimCommit(s)
    \/ \E s \in Schedulers : ClaimFail(s)
    \/ \E s \in Schedulers : SendToWorkers(s)
    \/ \E s \in Schedulers : SendTimeout(s)

SpecTicks == Init /\ [][NextTicks]_vars

\* ------------------------------------------------------------------ claims
\* The transition table as the specification lists it.
TransitionTable ==
    {<<PENDING, SCHEDULED>>, <<PENDING, CANCELLED>>,
     <<SCHEDULED, RUNNING>>, <<SCHEDULED, CANCELLED>>,
     <<RUNNING, SUCCEEDED>>, <<RUNNING, FAILED>>, <<RUNNING, RETRYING>>,
     <<RUNNING, CANCELLED>>,
     <<RETRYING, SCHEDULED>>, <<RETRYING, CANCELLED>>}

\* a worker is about to run the Update of a service call
WorkerWrites(w) == wpc[w] \in {"start_write", "succ_write", "perm_write", "hf_write"}

\* C1: every change of a job's persisted state, by whichever operation and in
\* whichever interleaving, is an edge of the transition table.
C1_OnlyTableEdges ==
    [][\A i \in DOMAIN jobs :
          jobs'[i].state # jobs[i].state
              => <<jobs[i].state, jobs'[i].state>> \in TransitionTable]_vars

\* C2: terminal states are absorbing: once a job is SUCCEEDED, FAILED or
\* CANCELLED no step changes its state, its attempt or its completed_at.
C2_TerminalAbsorbing ==
    [][\A i \in DOMAIN jobs :
          IsTerminal(jobs[i].state)
              => /\ jobs'[i].state = jobs[i].state
                 /\ jobs'[i].attempt = jobs[i].attempt
                 /\ jobs'[i].completed_at = jobs[i].completed_at]_vars

\* C5: a service mutation takes effect atomically: the row it writes was
\* computed from the row that is in the table when it writes (no write
\* rests on a stale read).
C5_NoStaleWrite ==
    [][/\ \A w \in Workers :
             (WorkerWrites(w) /\ wpc'[w] # wpc[w]) => wsnap[w] = jobs[wsnap[w].id]
       /\ \A c \in Clients :
             (cpc[c] = "cancel_write" /\ cpc'[c] # cpc[c]) => csnap[c] = jobs[csnap[c].id]]_vars

\* a worker is between its successful SCHEDULED->RUNNING write for job i and
\* the write that reports the outcome
Holds(w, i) ==
    /\ wjob[w].id = i
    /\ wpc[w] \in {"perm_read", "executing", "succ_write", "perm_write", "hf_write"}

\* C6: at any time at most one worker is between the RUNNING write for a job
\* and the report of its outcome, and Execute is called at most once per
\* claim of the job.
C6_OneWorkerPerJob ==
    \A i \in JobIds :
        /\ \A w1, w2 \in Workers : (Holds(w1, i) /\ Holds(w2, i)) => w1 = w2
        /\ runs[i] <= 1

\* the job was retried and a worker runs it while the other worker is idle or
\* still finishing the previous attempt
C6_Witness ==
    \E w \in Workers : Holds(w, 1) /\ wpc[w] = "executing" /\ jobs[1].attempt = 2

\* C7: every stored job has 1 <= attempt <= max_attempts, and the row
\* HandleFailure is about to write never has attempt above max_attempts.
C7_AttemptBounded ==
    /\ \A i \in DOMAIN jobs : 1 <= jobs[i].attempt /\ jobs[i].attempt <= jobs[i].max_attempts
    /\ \A w \in Workers :
          wpc[w] = "hf_write"
              => FailureJob(wsnap[w], ExecError, now).attempt <= wsnap[w].max_attempts

\* HandleFailure has exhausted the retries of a job
C7_Witness ==
    \E i \in DOMAIN jobs :
        jobs[i].state = FAILED /\ jobs[i].attempt = jobs[i].max_attempts
        /\ jobs[i].last_error = ExecError

\* C8: when HandleFailure takes a job to FAILED, the job has attempt =
\* max_attempts, last_error and completed_at set, and its executor has been
\* called exactly max_attempts times.
C8_ExhaustionAfterMaxAttempts ==
    [][\A w \in Workers :
          (wpc[w] = "hf_write" /\ wpc'[w] = "hf_reread"
           /\ jobs'[wjob[w].id].state = FAILED)
              => /\ jobs'[wjob[w].id].attempt = jobs'[wjob[w].id].max_attempts
                 /\ jobs'[wjob[w].id].last_error # NoError
                 /\ jobs'[wjob[w].id].completed_at # NULL
                 /\ execs[wjob[w].id] = jobs'[wjob[w].id].max_attempts]_vars

\* C9: when the execution ran into job_timeout, executeJob ends with the
\* attempt consumed through HandleFailure (the job RETRYING or FAILED).
C9_TimeoutConsumesAttempt ==
    \A w \in Workers :
        (wpc[w] = "done" /\ wout[w] = "timeout") => wres[w] \in {"retrying", "failed"}

ClaimingRows(s) == IF spc[s] = "claiming" THEN Range(sbatch[s]) ELSE {}

\* C4: concurrent ClaimPendingJobs invocations hold disjoint sets of rows, and
\* no job is returned by two claims unless it went back to RETRYING in between.
C4_ClaimsDisjoint ==
    /\ \A s1, s2 \in Schedulers : s1 # s2 => ClaimingRows(s1) \cap ClaimingRows(s2) = {}
    /\ \A i \in JobIds : nclaim[i] <= 1

\* two claim transactions are open at once and each holds a row
C4_Witness ==
    \A s \in Schedulers : ClaimingRows(s) # {}

\* C10: when the process starts after a crash, every job left SCHEDULED or
\* RUNNING is rewritten to PENDING before scheduling resumes.
C10_RecoveryAtStartup ==
    [][boots' # boots
          => \A i \in DOMAIN jobs' : jobs'[i].state \notin {SCHEDULED, RUNNING}]_vars

\* C11: HandleFailure(id, err) on an existing job stores err's message as
\* last_error, replacing an older one; with attempt < max_attempts it adds one
\* to attempt and sets RETRYING, leaving completed_at as it was; otherwise it
\* leaves attempt alone and sets FAILED with completed_at set.
C11_HandleFailureContract ==
    (call.op = "HandleFailure" /\ call.id \in DOMAIN call.before)
        => LET old == call.before[call.id]
               new == jobs[call.id]
           IN  /\ call.err = NoError
               /\ new.last_error = call.to
               /\ old.attempt < old.max_attempts
                    => /\ new.attempt = old.attempt + 1
                       /\ new.state = RETRYING
                       /\ new.completed_at = old.completed_at
               /\ ~(old.attempt < old.max_attempts)
                    => /\ new.attempt = old.attempt
                       /\ new.state = FAILED
                       /\ new.completed_at # NULL

\* a second failure replaced the message of the first and exhausted the job
C11_Witness ==
    /\ call.op = "HandleFailure"
    /\ call.id \in DOMAIN call.before
    /\ call.before[call.id].last_error = "simulated failure"
    /\ call.to = "connection reset"
    /\ jobs[call.id].state = FAILED

\* C12: CancelJob(id) on a job in a non-terminal state sets CANCELLED with
\* completed_at set; on a job in a terminal state it returns an error and
\* leaves the table as it was; a cancel of a job that a cancel has already
\* cancelled always fails.
C12_CancelContract ==
    [][(/\ call'.op = "CancelJob"
        /\ call'.id \in DOMAIN jobs
        /\ (call' # call \/ jobs' # jobs))
          => LET old == jobs[call'.id]
                 new == jobs'[call'.id]
             IN  /\ ~IsTerminal(old.state)
                      => /\ call'.err = NoError
                         /\ new.state = CANCELLED
                         /\ new.completed_at # NULL
                 /\ IsTerminal(old.state)
                      => /\ call'.err # NoError
                         /\ jobs' = jobs
                 /\ call'.id \in cancelled => call'.err # NoError]_vars

Runnable(store) == {i \in DOMAIN store : store[i].state \in {PENDING, RETRYING}}

\* C13: ClaimPendingJobs(limit) returns at most limit jobs; each was PENDING
\* or RETRYING just before and is SCHEDULED with scheduled_at set after; every
\* other row, and every other field of the claimed rows, is unchanged.
C13_ClaimFrame ==
    call.op = "ClaimPendingJobs"
        => /\ Len(call.ret) <= call.limit
           /\ DOMAIN call.before \subseteq DOMAIN jobs
           /\ \A i \in Range(call.ret) :
                 /\ i \in Runnable(call.before)
                 /\ jobs[i].state = SCHEDULED
                 /\ jobs[i].scheduled_at # NULL
                 /\ jobs[i] = [call.before[i] EXCEPT !.state = SCHEDULED,
                                                     !.scheduled_at = jobs[i].scheduled_at]
           /\ \A i \in DOMAIN call.before \ Range(call.ret) : jobs[i] = call.before[i]

\* a claim with limit 1 took one of two runnable jobs, a retried one, and left
\* the other
C13_Witness ==
    /\ call.op = "ClaimPendingJobs"
    /\ call.limit = 1
    /\ Len(call.ret) = 1
    /\ Cardinality(Runnable(call.before)) = 2
    /\ call.before[call.ret[1]].state = RETRYING

\* C16: a ClaimPendingJobs(limit) that runs alone returns the limit oldest
\* runnable jobs, by created_at ascending and, for equal created_at, by id
\* ascending.
C16_OldestFirstById ==
    call.op = "ClaimPendingJobs"
        => LET t == call.before
               Older(i, j) == \/ t[i].created_at < t[j].created_at
                              \/ t[i].created_at = t[j].created_at /\ i < j
           IN  /\ Len(call.ret) = Min(call.limit, Cardinality(Runnable(t)))
               /\ \A a, b \in DOMAIN call.ret :
                     a < b => Older(call.ret[a], call.ret[b])
               /\ \A a \in DOMAIN call.ret :
                     \A c \in Runnable(t) \ Range(call.ret) : Older(call.ret[a], c)

\* C14: a ClaimPendingJobs call that fails after its SELECT returns an error
\* and no job, changes no row, and leaves the rows it had selected unlocked
\* and runnable for a later claim.
C14_FailedClaimChangesNothing ==
    [][\A s \in Schedulers :
          (spc[s] = "claiming" /\ spc'[s] = "idle")
             => /\ sres'[s] = "error"
                /\ sbatch'[s] = <<>>
                /\ jobs' = jobs
                /\ \A i \in Range(sbatch[s]) : i \in Candidates(jobs', locked')]_vars

\* the claim of s1 failed on job 1 and the claim of s2 took the job afterwards
C14_Witness ==
    /\ sres["s1"] = "error"
    /\ sres["s2"] = "ok"
    /\ DOMAIN jobs = {1}
    /\ jobs[1].state = SCHEDULED
    /\ jobs[1].attempt = 1
    /\ nclaim[1] = 1

\* C15: a claim never waits for another claim: whatever rows other open claim
\* transactions hold, the SELECT of a scheduler that polls returns at once
\* (with the unlocked runnable rows, or empty), and a claim that has selected
\* its rows can always go on to its UPDATE and commit.
C15_ClaimsNeverWait ==
    \A s \in Schedulers :
        /\ spc[s] = "idle" => ENABLED (ClaimSelect(s) \/ ClaimEmpty(s))
        /\ spc[s] = "claiming" => ENABLED ClaimCommit(s)

\* s2 got job 2 from its SELECT while the claim of s1 held the lock of job 1
C15_Witness ==
    /\ spc["s1"] = "claiming"
    /\ locked[1] = "s1"
    /\ spc["s2"] = "claiming"
    /\ sbatch["s2"] = <<2>>
    /\ jobs[1].state \in {PENDING, RETRYING}

\* C17: two schedulers on one table of N runnable jobs, with a combined batch
\* capacity of at least N: once each has completed one tick (and neither
\* claim failed), every job is SCHEDULED and was returned by exactly one claim.
C17_TwoSchedulersClaimAll ==
    (/\ \A s \in Schedulers : spc[s] = "idle" /\ sres[s] \in {"ok", "empty"}
     /\ Cardinality(DOMAIN jobs) <= Cardinality(Schedulers) * TickLimit)
        => \A i \in DOMAIN jobs : jobs[i].state = SCHEDULED /\ nclaim[i] = 1

\* both schedulers have ticked and each claim returned one of the two jobs
C17_Witness ==
    /\ \A s \in Schedulers : spc[s] = "idle" /\ sres[s] = "ok"
    /\ DOMAIN jobs = {1, 2}

\* C18: every stored job whose state is SUCCEEDED, FAILED or CANCELLED has
\* completed_at set, whichever operation wrote the state.
C18_TerminalHasCompletedAt ==
    \A i \in DOMAIN jobs : IsTerminal(jobs[i].state) => jobs[i].completed_at # NULL

\* a worker's permanent-failure path (a panic or a missing executor) wrote FAILED
C18_Witness ==
    /\ \E w \in Workers : wres[w] = "failed" /\ wout[w] \in {"panic", "no executor"}
    /\ \E i \in DOMAIN jobs : jobs[i].state = FAILED /\ jobs[i].attempt = 1

\* C19: after every write, every job whose state is not PENDING has
\* scheduled_at set (a job cancelled before it was ever scheduled included),
\* and each claim stamps scheduled_at again.
C19_ScheduledAtSet ==
    [][\A i \in DOMAIN jobs' :
          /\ jobs'[i].state # PENDING => jobs'[i].scheduled_at # NULL
          /\ nclaim'[i] > nclaim[i] => jobs'[i].scheduled_at = now]_vars

C21_NoExecutorIsPermanent ==
    /\ [](\A i \in DOMAIN jobs : jobs[i].type \notin Registered =>
            /\ jobs[i].state # RETRYING
            /\ jobs[i].attempt = 1
            /\ execs[i] = 0
            /\ \A w \in Workers :
                 (wpc[w] = "done" /\ wjob[w].id = i /\ wout[w] = "no executor" /\ ncancel = 0)
                     => (jobs[i].state = FAILED /\ jobs[i].completed_at # NULL))
    /\ [][\A w \in Workers :
            (wpc[w] = "perm_write" /\ wpc'[w] # "perm_write" /\ wout[w] = "no executor")
                => /\ jobs'[wjob[w].id].state = FAILED
                   /\ jobs'[wjob[w].id].completed_at = now
                   /\ jobs'[wjob[w].id].attempt = jobs[wjob[w].id].attempt]_vars

\* a worker found no executor for an unknown_job and has written FAILED
C21_Witness ==
    \E w \in Workers :
        /\ wpc[w] = "done" /\ wout[w] = "no executor" /\ wres[w] = "failed"
        /\ jobs[wjob[w].id].type \notin Registered
        /\ jobs[wjob[w].id].state = FAILED
        /\ jobs[wjob[w].id].attempt = 1

\* C22: a panic of an executor is recovered and fails that job permanently and
\* no other: the recovery goes to the permanent write, never to HandleFailure;
\* that write stores FAILED with completed_at set and the attempt of the row
\* the recovery read, and touches no other row; the worker then returns to its loop, and no worker
\* leaves the loop before the pool is stopped.  When nobody cancelled, the job
\* is FAILED once the worker is through with it.
C22_PanicIsPermanent ==
    /\ [](\A w \in Workers :
            /\ pstop = "no" => wpc[w] # "exited"
            /\ (wpc[w] = "done" /\ wout[w] = "panic" /\ ncancel = 0)
                   => jobs[wjob[w].id].state = FAILED)
    /\ [][\A w \in Workers :
            /\ (wpc[w] = "executing" /\ wpc'[w] # "executing" /\ wout'[w] = "panic")
                   => (wpc'[w] \in {"perm_write", "done"} /\ jobs' = jobs)
            /\ (wpc[w] = "perm_write" /\ wpc'[w] # "perm_write" /\ wout[w] = "panic")
                   => /\ wpc'[w] = "done"
                      /\ \A i \in DOMAIN jobs : i # wjob[w].id => jobs'[i] = jobs[i]
                      /\ jobs'[wjob[w].id].state = FAILED
                      /\ jobs'[wjob[w].id].completed_at = now
                      /\ jobs'[wjob[w].id].attempt = wsnap[w].attempt
            /\ (wpc[w] = "done" /\ wpc'[w] # "done") => wpc'[w] = "idle"]_vars

\* the worker whose executor panicked on job 1 is executing job 2
C22_Witness ==
    /\ 1 \in DOMAIN jobs
    /\ jobs[1].state = FAILED /\ jobs[1].attempt = 1 /\ execs[1] = 1
    /\ jobs[1].type \in Registered
    /\ metrics.failed = 1
    /\ wpc["w1"] = "executing" /\ wjob["w1"].id = 2

\* C23: when the pool is stopped while a worker is executing a job, the job
\* finishes and its result is recorded: once the worker is through with a job
\* whose executor returned (or panicked) under a stopped pool, the job is no
\* longer RUNNING.
C23_StopRecordsInFlight ==
    \A w \in Workers :
        (pstop # "no" /\ wpc[w] = "done" /\ wctx[w] = "cancelled"
            /\ wout[w] \in {"ok", "error", "panic"})
            => jobs[wjob[w].id].state # RUNNING

\* C24: on shutdown the dispatch queue is drained: when Stop has returned,
\* none of the jobs that were in the channel when Stop was called is still in
\* the channel or still SCHEDULED.
C24_QueueDrained ==
    pstop = "joined" =>
        \A i \in atstop :
            /\ \A k \in 1..Len(chan) : chan[k].id # i
            /\ jobs[i].state # SCHEDULED

\* C25: with fair scheduling, a store that does not fail, executors that
\* return and no shutdown, every job that was created eventually reaches a
\* terminal state.
C25_EveryJobTerminates ==
    \A i \in JobIds :
        (i \in DOMAIN jobs) ~> (i \in DOMAIN jobs /\ IsTerminal(jobs[i].state))

\* C26: the write that records a successful execution stores SUCCEEDED with
\* completed_at set and with the attempt and last_error of the row the handler
\* read; after the first execution of the job that is attempt = 1 and no
\* last_error.  When nobody cancelled, the stored attempt and last_error are
\* not changed by the write, the job was RUNNING (claimed and started before),
\* and it is SUCCEEDED once the worker is through with it.
C26_HappyPath ==
    /\ [](\A w \in Workers :
            (wpc[w] = "done" /\ wout[w] = "ok" /\ ncancel = 0)
                => /\ jobs[wjob[w].id].state = SUCCEEDED
                   /\ jobs[wjob[w].id].completed_at # NULL
                   /\ execs[wjob[w].id] = 1 =>
                         /\ jobs[wjob[w].id].attempt = 1
                         /\ jobs[wjob[w].id].last_error = NoError)
    /\ [][\A w \in Workers :
            (wpc[w] = "succ_write" /\ wpc'[w] # "succ_write")
                => LET id == wjob[w].id
                   IN  /\ jobs'[id].state = SUCCEEDED
                       /\ jobs'[id].completed_at = now
                       /\ jobs'[id].attempt = wsnap[w].attempt
                       /\ jobs'[id].last_error = wsnap[w].last_error
                       /\ execs[id] = 1 =>
                             (jobs'[id].attempt = 1 /\ jobs'[id].last_error = NoError)
                       /\ ncancel = 0 =>
                             /\ jobs'[id].attempt = jobs[id].attempt
                             /\ jobs'[id].last_error = jobs[id].last_error
                             /\ jobs[id].state = RUNNING
                             /\ nclaim[id] >= 1
                             /\ jobs[id].scheduled_at # NULL
                             /\ jobs[id].started_at # NULL]_vars

\* the first execution of job 1 returned nil and the worker recorded it
C26_Witness ==
    \E w \in Workers :
        /\ wpc[w] = "done" /\ wout[w] = "ok" /\ wres[w] = "succeeded"
        /\ execs[wjob[w].id] = 1
        /\ jobs[wjob[w].id].state = SUCCEEDED
        /\ jobs[wjob[w].id].attempt = 1
        /\ jobs[wjob[w].id].last_error = NoError
        /\ jobs[wjob[w].id].completed_at # NULL
        /\ metrics.succeeded = 1

\* C27: for attempt >= 1 and non-negative durations, CalculateBackoff(attempt)
\* lies in [m, m + max_jitter) with m = min(base_delay * 2^(attempt-1),
\* max_delay); with max_jitter = 0 it equals m, is non-decreasing in attempt
\* and stays at max_delay once it has reached it.
C27_BackoffInRange ==
    call.op = "CalculateBackoff" =>
        LET m == Min(call.cfg.BaseDelay * Pow2(call.attempt - 1), call.cfg.MaxDelay)
        IN  IF call.cfg.MaxJitter = 0
            THEN /\ call.ret = m
                 /\ call.ret <= call.next
                 /\ call.ret = call.cfg.MaxDelay => call.next = call.cfg.MaxDelay
            ELSE m <= call.ret /\ call.ret < m + call.cfg.MaxJitter

\* C28: a GetJob that directly follows a successful CreateJob, on the id that
\* CreateJob returned, succeeds and yields a job equal to the one CreateJob
\* returned.
C28_CreateGetRoundTrip ==
    [][(/\ call.op = "CreateJob" /\ call.err = NoError
        /\ call'.op = "GetJob" /\ call'.id = call.ret.id)
          => (call'.err = NoError /\ call'.ret = call.ret)]_vars

\* C29: a CreateJob with an empty type, with a non-empty payload that is not
\* valid JSON, or with an id that is already stored returns an error and
\* leaves the stored jobs as they were.
C29_CreateRejectsBadInput ==
    (/\ call.op = "CreateJob"
     /\ \/ call.type = ""
        \/ (call.payload # "" /\ ~JsonValid(call.payload))
        \/ call.id \in DOMAIN call.before)
        => (call.err # NoError /\ jobs = call.before)

\* CreateJob was given a valid type and payload and an id that was stored already
C29_Witness ==
    /\ call.op = "CreateJob"
    /\ call.type = "demo_job"
    /\ JsonValid(call.payload)
    /\ call.id \in DOMAIN call.before
    /\ call.err = "failed to create job"
    /\ Cardinality(DOMAIN jobs) = 2

\* C30: no step of any interleaving of claims, TransitionState, HandleFailure
\* and CancelJob changes the id, type, payload, max_attempts or created_at of
\* a stored job, and no stored job disappears.
C30_ImmutableFields ==
    [][\A i \in DOMAIN jobs :
          /\ i \in DOMAIN jobs'
          /\ jobs'[i].id = jobs[i].id
          /\ jobs'[i].type = jobs[i].type
          /\ jobs'[i].payload = jobs[i].payload
          /\ jobs'[i].max_attempts = jobs[i].max_attempts
          /\ jobs'[i].created_at = jobs[i].created_at]_vars

\* a job that was claimed, started, failed once and then cancelled still has
\* the fields it was created with
C30_Witness ==
    \E i \in DOMAIN jobs :
        /\ jobs[i].state = CANCELLED /\ jobs[i].attempt = 2 /\ execs[i] >= 1
        /\ jobs[i].id = i
        /\ jobs[i].type = "demo_job"
        /\ jobs[i].payload = Jsonb(CompactPayload)
        /\ jobs[i].max_attempts = DefaultMaxAttempts
        /\ jobs[i].created_at = 1

C40_QueriesAgree ==
    /\ call.op = "ValidateTransition" =>
           (call.err = NoError <=> CanTransition(call.from, call.to))
    /\ call.op = "AllowedTransitions" =>
           Range(call.ret) = {to \in SeqTargets : CanTransition(call.from, to)}

\* ValidateTransition was asked about a target that is no state
C40_Witness ==
    /\ call.op = "ValidateTransition"
    /\ call.from = PENDING
    /\ call.to = "INVALID"
    /\ call.err = "invalid target state"

\* A job is settled as cancelled: it is CANCELLED and no worker is between the
\* read and the write of a call on it.
SettledCancelled(i) ==
    /\ i \in DOMAIN jobs
    /\ jobs[i].state = CANCELLED
    /\ \A w \in Workers :
         wjob[w].id = i => wpc[w] \in {"idle", "done", "hf_reread", "exited"}

\* C31: a cancel that succeeds while the job is PENDING, RETRYING or SCHEDULED
\* and not yet received by a worker settles the job as cancelled; a settled
\* job stays CANCELLED and is never executed; the worker that receives it
\* drops it without invoking the executor.
C31_CancelledNeverRuns ==
    [][/\ \A c \in Clients, i \in DOMAIN jobs :
            (/\ cpc[c] = "cancel_write" /\ cpc'[c] = "idle" /\ csnap[c].id = i
             /\ jobs'[i].state = CANCELLED
             /\ jobs[i].state \in {PENDING, RETRYING, SCHEDULED}
             /\ \A w \in Workers : ~(wjob[w].id = i /\ wpc[w] = "start_write"))
                => SettledCancelled(i)'
       /\ \A i \in DOMAIN jobs :
            SettledCancelled(i) =>
                (SettledCancelled(i)' /\ execs'[i] = execs[i] /\ jobs'[i] = jobs[i])
       /\ \A w \in Workers :
            (/\ wpc[w] = "idle" /\ wpc'[w] \notin {"idle", "exited"}
             /\ SettledCancelled(wjob'[w].id))
                => (wpc'[w] = "done" /\ wres'[w] = "dropped")]_vars

\* a worker received a job that was cancelled while it waited in the channel
\* and dropped it
C31_Witness ==
    \E w \in Workers :
        /\ wpc[w] = "done" /\ wres[w] = "dropped"
        /\ jobs[wjob[w].id].state = CANCELLED
        /\ execs[wjob[w].id] = 0
        /\ wjob[w].id \in cancelled

\* C32: jobs_failed is incremented once for each job that ends in FAILED and
\* never otherwise, so it never exceeds the number of jobs.
C32_FailedCountedOnce ==
    metrics.failed <= Cardinality(DOMAIN jobs)

\* C33: on shutdown the scheduler is stopped before the worker pool: once
\* WorkerPool.Stop has returned, no step claims a job (nclaim grows) and no
\* step publishes a job to the channel (chan grows).
C33_SchedulerStopsFirst ==
    [][pstop = "joined" => (nclaim' = nclaim /\ Len(chan') <= Len(chan))]_vars

\* C34: a job abandoned by the send timeout is recovered: with fair
\* scheduling and a restart of the process still to come, a job that is
\* SCHEDULED and neither queued nor held by anybody eventually leaves
\* SCHEDULED.
C34_AbandonedJobRecovered ==
    \A i \in JobIds :
        (boots = 0 /\ Abandoned(i)) ~> (i \in DOMAIN jobs /\ jobs[i].state # SCHEDULED)

\* C35: when the durable call behind a worker's transition fails, the worker
\* does not advance the job.  A step in which repo.Update fails, or in which
\* the GetJob of TransitionState or HandleFailure fails, ends executeJob and
\* leaves the stored jobs, the success and failure counters and the number of
\* executor invocations as they were; in particular a failed
\* SCHEDULED -> RUNNING is not followed by Execute.
C35_FailedCallLeavesJob ==
    [][\A w \in Workers :
          (\/ UpdateFails(w) /\ wpc'[w] # wpc[w]
           \/ /\ wpc[w] \in {"idle", "executing", "perm_read"}
              /\ wpc'[w] = "done" /\ wres'[w] = "error")
              => /\ wpc'[w] = "done"
                 /\ wres'[w] \in {"error", "update failed"}
                 /\ jobs' = jobs
                 /\ metrics' = metrics
                 /\ execs' = execs]_vars

\* C35 witness: TransitionState(RUNNING) failed at its Update for a job of a
\* registered type; the job is still SCHEDULED and was never executed.
C35_Witness ==
    \E w \in Workers :
        /\ wpc[w] = "done" /\ wres[w] = "update failed" /\ wout[w] = "none"
        /\ wjob[w].type \in Registered
        /\ jobs[wjob[w].id].state = SCHEDULED
        /\ execs[wjob[w].id] = 0

\* C36: retries are bounded: at every point the number of executor
\* invocations so far for a job is at most its max_attempts.
C36_RetriesBounded ==
    \A i \in DOMAIN jobs : execs[i] <= jobs[i].max_attempts

C38_StopTerminates ==
    /\ (pstop = "cancelled") ~> (pstop = "joined" /\ \A w \in Workers : wpc[w] = "exited")
    /\ (sstop = "cancelled") ~> (sstop = "joined" /\ \A s \in Schedulers : spc[s] = "exited")

\* C38 witness: both Stop calls have returned; a job had been executed, and
\* the scheduler gave up a job it could not publish to the full channel.
C38_Witness ==
    /\ pstop = "joined"
    /\ sstop = "joined"
    /\ Len(chan) = ChanCap
    /\ \E i \in DOMAIN jobs : Abandoned(i)
    /\ \E i \in DOMAIN jobs : execs[i] > 0

====
